---- MODULE Spec2Model ----
(***************************************************************************)
(* Tree Health Monitor (App.tsx, types.ts, constants.ts): the MQTT         *)
(* ingestion handlers, the live snapshot merge, the historical fetch and   *)
(* the auto-refresh timer, as one state machine.  A handler and the React  *)
(* effects its state change triggers form one atomic action.               *)
(*                                                                         *)
(* JavaScript values are modelled as strings: Undefined and Null are the   *)
(* two sentinels, "" is the empty string, and the falsy values are         *)
(* Undefined, Null and "".                                                 *)
(***************************************************************************)
EXTENDS Integers, Sequences, FiniteSets, Bags, TLC

\* ------------------------------------------------------------------ bounds
MaxVal == 2          \* distinct field values a payload may carry
MaxTs == 2           \* distinct in-range unix timestamps (seconds)
MaxInFlight == 2     \* historical requests that may be unresolved at once
MaxComments == 2     \* comment lines at the head of a CSV text
MaxRows == 3         \* data rows of a CSV text

\* --------------------------------------------------------------- JS values
Undefined == "undefined"
Null == "null"

Truthy(v) == v \notin {Undefined, Null, ""}

\* ----------------------------------------------------- types.ts, constants
SensorType ==
  [RESISTANCE |-> "resistance", TEMP_WOOD |-> "temperature_wood",
   SOIL_MOISTURE |-> "soil_moisture", TEMP_AIR |-> "temperature_air",
   HUMIDITY_AIR |-> "humidity_air", BATTERY |-> "battery"]

ALL_SENSOR_TYPES ==
  << SensorType.RESISTANCE, SensorType.TEMP_WOOD, SensorType.SOIL_MOISTURE,
     SensorType.TEMP_AIR, SensorType.HUMIDITY_AIR, SensorType.BATTERY >>

SensorTypes == {ALL_SENSOR_TYPES[i] : i \in 1..Len(ALL_SENSOR_TYPES)}

\* SensorType has no STRESS member, so the initial selection reads a missing
\* property of the SensorType object.
SensorType_STRESS == Undefined

SENSOR_TYPE_TO_INFLUX_FIELD ==
  [k \in SensorTypes |->
     IF k = SensorType.TEMP_WOOD THEN "temperature" ELSE k]

InfluxField(sensorType) ==
  IF sensorType \in SensorTypes
    THEN SENSOR_TYPE_TO_INFLUX_FIELD[sensorType]
    ELSE Undefined

ConnectionStatus ==
  [DISCONNECTED |-> "Disconnected", CONNECTING |-> "Connecting...",
   CONNECTED |-> "Connected", ERROR |-> "Error",
   RECONNECTING |-> "Reconnecting..."]

MQTT_BASE_TOPIC == << "mapfeed", "/", "thws-trees", "/", "#" >>

\* Keys of AppLiveData that carry provenance rather than a measurement.
ProvenanceKeys ==
  {"last_updated_timestamp", "last_updated_sensor_id", "raw_message_name"}


\* ------------------------------------------------------- text and splitting
\* A text is a sequence of tokens; a separator is a token of its own, every
\* other token is a run of characters without separators.
RECURSIVE Join(_)
Join(tokens) ==
  IF tokens = << >> THEN "" ELSE Head(tokens) \o Join(Tail(tokens))

RECURSIVE SplitFrom(_, _, _, _)
SplitFrom(tokens, sep, acc, cur) ==
  IF tokens = << >> THEN Append(acc, cur)
  ELSE IF Head(tokens) = sep
    THEN SplitFrom(Tail(tokens), sep, Append(acc, cur), << >>)
    ELSE SplitFrom(Tail(tokens), sep, acc, Append(cur, Head(tokens)))

\* String.prototype.split(sep), the pieces still tokenised.
SplitTokens(text, sep) == SplitFrom(text, sep, << >>, << >>)

\* String.prototype.split(sep), the pieces as strings.
Split(text, sep) ==
  LET parts == SplitTokens(text, sep)
  IN  [i \in 1..Len(parts) |-> Join(parts[i])]

\* array[i] with JavaScript's zero-based index; a missing element is undefined.
At(array, i) == IF i + 1 \in 1..Len(array) THEN array[i + 1] ELSE Undefined

Max(a, b) == IF a >= b THEN a ELSE b

\* ------------------------------------------------------------ Date values
Pad(n, width) ==
  LET s == ToString(n)
  IN  IF width = 3 /\ n < 10 THEN "00" \o s
      ELSE IF (width = 3 /\ n < 100) \/ (width = 2 /\ n < 10) THEN "0" \o s
      ELSE s

\* new Date(seconds * 1000).toISOString(), for instants of 1 January 1970.
ToISOString(ms) ==
  LET sec == ms \div 1000
  IN  "1970-01-01T" \o Pad(sec \div 3600, 2) \o ":" \o Pad((sec \div 60) % 60, 2)
        \o ":" \o Pad(sec % 60, 2) \o "." \o Pad(ms % 1000, 3) \o "Z"

\* ------------------------------------------------------- inbound messages
\* typeof rawPayload.timestamp, and the number it holds.  "hugeNumber" is a
\* number whose instant lies outside the range a Date can represent.
Timestamps ==
  {[t |-> "undefined", v |-> 0], [t |-> "string", v |-> 0],
   [t |-> "hugeNumber", v |-> 0]}
    \cup {[t |-> "number", v |-> n] : n \in 1..MaxTs}

Val(i) == "v" \o ToString(i)
FieldValues == {Val(i) : i \in 1..MaxVal}
FieldKeys == {"resistance", "temperature", "last_updated_sensor_id"}

FieldMaps == UNION {[ks -> FieldValues] : ks \in SUBSET FieldKeys}

Names == {Undefined, "", "s1"}

Topics ==
  { << "mapfeed", "/", "thws-trees" >>,
    << "mapfeed", "/", "thws-trees", "/" >>,
    << "mapfeed", "/", "thws-trees", "/", "s2" >> }

NoFields == [present |-> FALSE, entries |-> << >>]

\* The payload as JSON.parse returns it; parses = FALSE is a payload that
\* JSON.parse rejects.
Payloads ==
  [parses : {TRUE}, fields : {NoFields} \cup {[present |-> TRUE, entries |-> f] : f \in FieldMaps},
   timestamp : Timestamps, name : Names]
Malformed ==
  [parses |-> FALSE, fields |-> NoFields,
   timestamp |-> [t |-> "undefined", v |-> 0], name |-> Undefined]

Messages == [topic : Topics, payload : Payloads \cup {Malformed}]

sensorTypeFilters == [k \in {} |-> TRUE]

FilterAllows(key) ==
  ~(key \in DOMAIN sensorTypeFilters /\ sensorTypeFilters[key] = FALSE)

\* PassesValidation without the typeof test of the timestamp.
PassesValidation_NoTimestampTest(topic, rawPayload) ==
  ~( ~rawPayload.fields.present
     \/ (~Truthy(rawPayload.name) /\ ~Truthy(At(Split(topic, "/"), 2))) )

\* Line 161: TRUE when the handler does not return early.
PassesValidation(topic, rawPayload) ==
  ~( ~rawPayload.fields.present
     \/ rawPayload.timestamp.t \notin {"number", "hugeNumber"}
     \/ (~Truthy(rawPayload.name) /\ ~Truthy(At(Split(topic, "/"), 2))) )

UNKNOWN_SENSOR == "unknown_sensor"

\* EffectiveSensorId reading the second topic segment instead of the third.
EffectiveSensorId_SecondSegment(topic, rawPayload) ==
  LET topicParts == Split(topic, "/")
  IN  IF Truthy(rawPayload.name) THEN rawPayload.name
      ELSE IF Len(topicParts) > 2 THEN topicParts[2] ELSE UNKNOWN_SENSOR

\* Lines 162-163.
EffectiveSensorId(topic, rawPayload) ==
  LET topicParts == Split(topic, "/")
  IN  IF Truthy(rawPayload.name) THEN rawPayload.name
      ELSE IF Len(topicParts) > 2 THEN topicParts[3] ELSE UNKNOWN_SENSOR

Get(object, key) == IF key \in DOMAIN object THEN object[key] ELSE Undefined

\* Lines 165-180: the setLiveData updater.  prevLiveData = << >> is null.
UpdatedLiveData(prevLiveData, topic, rawPayload) ==
  LET fields == rawPayload.fields.entries
      base ==
        [k \in DOMAIN prevLiveData \cup ProvenanceKeys |->
           IF k = "last_updated_timestamp"
             THEN ToISOString(rawPayload.timestamp.v * 1000)
           ELSE IF k = "last_updated_sensor_id"
             THEN EffectiveSensorId(topic, rawPayload)
           ELSE IF k = "raw_message_name" THEN rawPayload.name
           ELSE prevLiveData[k]]
      written == {k \in DOMAIN fields : FilterAllows(k)}
  IN  [k \in DOMAIN base \cup written |->
         IF k \in written THEN fields[k] ELSE base[k]]

\* ------------------------------------------------------- parseInfluxCSV
Whitespace == {"\n", " "}

RECURSIVE TrimStart(_)
TrimStart(text) ==
  IF text # << >> /\ Head(text) \in Whitespace THEN TrimStart(Tail(text)) ELSE text

RECURSIVE TrimEnd(_)
TrimEnd(text) ==
  IF text # << >> /\ text[Len(text)] \in Whitespace
    THEN TrimEnd(SubSeq(text, 1, Len(text) - 1)) ELSE text

\* String.prototype.trim()
Trim(text) == TrimEnd(TrimStart(text))

\* line.startsWith('#'): "#" is a token of its own.
StartsWithHash(line) == line # << >> /\ Head(line) = "#"

\* Array.prototype.indexOf, zero-based, -1 when absent.
IndexOf(array, x) ==
  LET hits == {i \in 1..Len(array) : array[i] = x}
  IN  IF hits = {} THEN -1 ELSE (CHOOSE i \in hits : \A j \in hits : i <= j) - 1

NaN == "NaN"

\* new Date(text).toISOString() for the time cells of the model; NaN is an
\* invalid date.
DateOf(text) ==
  IF text = "2024-01-01T00:00:00Z" THEN "2024-01-01T00:00:00.000Z"
  ELSE IF text = "2024-01-02T00:00:00Z" THEN "2024-01-02T00:00:00.000Z"
  ELSE NaN

\* parseFloat(text) for the value cells of the model: the longest numeric
\* prefix, NaN when there is none.
ParseFloat(text) ==
  IF text \in {"12.5", "12.5abc"} THEN "12.5"
  ELSE IF text = "7" THEN "7"
  ELSE NaN

\* The point of a row stored under the battery kind whatever the kind asked.
NewPoint_BatteryKey(date, value, sensorType, sensorMeasurementId) ==
  [k \in {"date", "original_timestamp", "sensor_id", SensorType.BATTERY} |->
     IF k = SensorType.BATTERY THEN value
     ELSE IF k = "sensor_id" THEN sensorMeasurementId
     ELSE date]

\* Lines 62-67: the point of a row; the date and its ISO text are one value.
NewPoint(date, value, sensorType, sensorMeasurementId) ==
  [k \in {"date", "original_timestamp", "sensor_id", sensorType} |->
     IF k = sensorType THEN value
     ELSE IF k = "sensor_id" THEN sensorMeasurementId
     ELSE date]

\* ParseRows that stops reading at the first row it rejects.
RECURSIVE ParseRows_StopsAtInvalid(_, _, _, _, _, _)
ParseRows_StopsAtInvalid(lines, i, timeIndex, valueIndex, sensorType, sensorMeasurementId) ==
  IF i >= Len(lines) THEN << >>
  ELSE
    LET values == Split(lines[i + 1], ",")
        rest == ParseRows_StopsAtInvalid(lines, i + 1, timeIndex, valueIndex,
                                         sensorType, sensorMeasurementId)
    IN  IF Len(values) > Max(timeIndex, valueIndex)
          THEN LET date == DateOf(values[timeIndex + 1])
                   value == ParseFloat(values[valueIndex + 1])
               IN  IF date # NaN /\ value # NaN
                     THEN << NewPoint(date, value, sensorType,
                                      sensorMeasurementId) >> \o rest
                     ELSE << >>
          ELSE << >>

RECURSIVE ParseRows(_, _, _, _, _, _)
\* Lines 54-71; i is the zero-based index of the line being read.
ParseRows(lines, i, timeIndex, valueIndex, sensorType, sensorMeasurementId) ==
  IF i >= Len(lines) THEN << >>
  ELSE
    LET values == Split(lines[i + 1], ",")
        rest == ParseRows(lines, i + 1, timeIndex, valueIndex,
                          sensorType, sensorMeasurementId)
    IN  IF Len(values) > Max(timeIndex, valueIndex)
          THEN LET date == DateOf(values[timeIndex + 1])
                   value == ParseFloat(values[valueIndex + 1])
               IN  IF date # NaN /\ value # NaN
                     THEN << NewPoint(date, value, sensorType,
                                      sensorMeasurementId) >> \o rest
                     ELSE rest
          ELSE rest

\* parseInfluxCSV that reads its header from the first line of the text.
parseInfluxCSV_HeaderIsFirstLine(csvText, sensorType, sensorMeasurementId) ==
  LET lines == SplitTokens(Trim(csvText), "\n")
      headerLineIndex == 0
  IN  IF Len(lines) < 2 THEN << >>
      ELSE
        LET headers == Split(lines[headerLineIndex + 1], ",")
            timeIndex == IndexOf(headers, "_time")
            valueIndex == IndexOf(headers, "_value")
        IN  IF timeIndex = -1 \/ valueIndex = -1 THEN << >>
            ELSE ParseRows(lines, headerLineIndex + 1, timeIndex, valueIndex,
                           sensorType, sensorMeasurementId)

\* Lines 29-73.
parseInfluxCSV(csvText, sensorType, sensorMeasurementId) ==
  LET lines == SplitTokens(Trim(csvText), "\n")
      plain == {i \in 1..Len(lines) : ~StartsWithHash(lines[i])}
      headerLineIndex ==
        IF plain = {} THEN -1
        ELSE (CHOOSE i \in plain : \A j \in plain : i <= j) - 1
  IN  IF Len(lines) < 2 THEN << >>
      ELSE IF headerLineIndex = -1 THEN << >>
      ELSE
        LET headers == Split(lines[headerLineIndex + 1], ",")
            timeIndex == IndexOf(headers, "_time")
            valueIndex == IndexOf(headers, "_value")
        IN  IF timeIndex = -1 \/ valueIndex = -1 THEN << >>
            ELSE ParseRows(lines, headerLineIndex + 1, timeIndex, valueIndex,
                           sensorType, sensorMeasurementId)

\* ---------------------------------------------------- formatRelativeTime
\* The instants (milliseconds since the epoch) that timestamps of the model
\* denote.
PastInstants == {0, 1500}

\* new Date(isoTimestamp): the instant whose ISO text this is, an invalid
\* date (getTime() is NaN) for any other text.
ParseISO(isoTimestamp) ==
  IF \E ms \in PastInstants : ToISOString(ms) = isoTimestamp
    THEN [valid |-> TRUE,
          time |-> CHOOSE ms \in PastInstants : ToISOString(ms) = isoTimestamp]
    ELSE [valid |-> FALSE, time |-> 0]

\* Math.round(ms / 1000): halves round towards plus infinity.
RoundSeconds(ms) == (ms + 500) \div 1000

\* Lines 76-85, for the days around the epoch; getDate, getMonth and
\* getFullYear read the local time, timezoneOffset minutes ahead of UTC.
formatDateToDDMMYY(date, timezoneOffset) ==
  IF ~date.valid THEN "Invalid Date"
  ELSE LET day == (date.time + timezoneOffset * 60000) \div 86400000
       IN  IF day < 0 THEN Pad(32 + day, 2) \o ".12.69"
           ELSE Pad(day + 1, 2) \o ".01.70"

\* formatRelativeTime that always writes the plural unit.
formatRelativeTime_AlwaysPlural(isoTimestamp, now, timezoneOffset) ==
  LET pastDate == ParseISO(isoTimestamp)
  IN  IF ~pastDate.valid THEN "on " \o formatDateToDDMMYY(pastDate, timezoneOffset)
      ELSE
        LET secondsAgo == RoundSeconds(now - pastDate.time)
            minutesAgo == secondsAgo \div 60
            hoursAgo == minutesAgo \div 60
            daysAgo == hoursAgo \div 24
        IN  IF secondsAgo < 60 THEN "just now"
            ELSE IF minutesAgo < 60 THEN ToString(minutesAgo) \o " minutes ago"
            ELSE IF hoursAgo < 24 THEN ToString(hoursAgo) \o " hours ago"
            ELSE IF daysAgo < 7 THEN ToString(daysAgo) \o " days ago"
            ELSE "on " \o formatDateToDDMMYY(pastDate, timezoneOffset)

\* Lines 89-110; now is the clock reading of line 90.  Every comparison
\* with the NaN of an invalid date is false, which leads to the last line.
formatRelativeTime(isoTimestamp, now, timezoneOffset) ==
  LET pastDate == ParseISO(isoTimestamp)
  IN  IF ~pastDate.valid THEN "on " \o formatDateToDDMMYY(pastDate, timezoneOffset)
      ELSE
        LET secondsAgo == RoundSeconds(now - pastDate.time)
            minutesAgo == secondsAgo \div 60
            hoursAgo == minutesAgo \div 60
            daysAgo == hoursAgo \div 24
        IN  IF secondsAgo < 60 THEN "just now"
            ELSE IF minutesAgo < 60
              THEN ToString(minutesAgo) \o " minute"
                     \o (IF minutesAgo = 1 THEN "" ELSE "s") \o " ago"
            ELSE IF hoursAgo < 24
              THEN ToString(hoursAgo) \o " hour"
                     \o (IF hoursAgo = 1 THEN "" ELSE "s") \o " ago"
            ELSE IF daysAgo < 7
              THEN ToString(daysAgo) \o " day"
                     \o (IF daysAgo = 1 THEN "" ELSE "s") \o " ago"
            ELSE "on " \o formatDateToDDMMYY(pastDate, timezoneOffset)

\* ------------------------------------------------ historical query results
CsvEmpty == << >>
CsvOneRow ==
  << "#", "group", "\n", "_time", ",", "_value", "\n",
     "2024-01-01T00:00:00Z", ",", "12.5" >>

\* What the fetch of lines 252-265 ends with: a success status and a body,
\* a non-success status, or a rejected promise (transport failure).
FetchOutcomes ==
  {[type |-> "ok", body |-> CsvEmpty], [type |-> "ok", body |-> CsvOneRow],
   [type |-> "status", body |-> << >>], [type |-> "reject", body |-> << >>]}

NoRequest == [sensorMeasurementId |-> Null, sensorType |-> Null]

\* fetchHistoricalData that raises the loading flag before it tests its
\* arguments.
fetchHistoricalData_LoadsFirst(h, sensorMeasurementId, sensorType) ==
  IF ~Truthy(sensorMeasurementId)
    THEN [h EXCEPT !.influxHistoricalData = << >>,
                   !.isHistoricalDataLoading = TRUE,
                   !.historicalDataError = "No active sensor ID to fetch data for."]
  ELSE IF ~Truthy(InfluxField(sensorType))
    THEN [h EXCEPT !.influxHistoricalData = << >>,
                   !.isHistoricalDataLoading = TRUE,
                   !.historicalDataError = "Configuration error: No InfluxDB field mapping"]
  ELSE LET request == [sensorMeasurementId |-> sensorMeasurementId,
                       sensorType |-> sensorType]
       IN  [h EXCEPT !.isHistoricalDataLoading = TRUE,
                     !.historicalDataError = Null,
                     !.pending = @ (+) SetToBag({request}),
                     !.lastIssued = request]

\* Lines 230-250: the synchronous part of fetchHistoricalData.  h holds the
\* historical state; a request that is sent joins h.pending.
fetchHistoricalData(h, sensorMeasurementId, sensorType) ==
  IF ~Truthy(sensorMeasurementId)
    THEN [h EXCEPT !.influxHistoricalData = << >>,
                   !.historicalDataError = "No active sensor ID to fetch data for."]
  ELSE IF ~Truthy(InfluxField(sensorType))
    THEN [h EXCEPT !.influxHistoricalData = << >>,
                   !.historicalDataError = "Configuration error: No InfluxDB field mapping"]
  ELSE LET request == [sensorMeasurementId |-> sensorMeasurementId,
                       sensorType |-> sensorType]
       IN  [h EXCEPT !.isHistoricalDataLoading = TRUE,
                     !.historicalDataError = Null,
                     !.pending = @ (+) SetToBag({request}),
                     !.lastIssued = request]

\* SettledState whose catch block keeps the stored result.
SettledState_KeepsResult(h, request, outcome) ==
  LET done ==
        IF outcome.type = "ok"
          THEN [h EXCEPT !.influxHistoricalData =
                  parseInfluxCSV(outcome.body, request.sensorType,
                                 request.sensorMeasurementId)]
          ELSE [h EXCEPT !.historicalDataError =
                           IF outcome.type = "status"
                             THEN "InfluxDB query failed" ELSE "Failed to fetch"]
  IN  [done EXCEPT !.isHistoricalDataLoading = FALSE]

\* Lines 261-272: what the state setters do when a request settles.
SettledState(h, request, outcome) ==
  LET done ==
        IF outcome.type = "ok"
          THEN [h EXCEPT !.influxHistoricalData =
                  parseInfluxCSV(outcome.body, request.sensorType,
                                 request.sensorMeasurementId)]
          ELSE [h EXCEPT !.historicalDataError =
                           IF outcome.type = "status"
                             THEN "InfluxDB query failed" ELSE "Failed to fetch",
                         !.influxHistoricalData = << >>]
  IN  [done EXCEPT !.isHistoricalDataLoading = FALSE]

\* FetchOnChangeEffect that does not fetch while a request is loading.
FetchOnChangeEffect_WaitsForIdle(h, activeSensorId, selectedSensor) ==
  IF Truthy(activeSensorId) /\ Truthy(selectedSensor)
    THEN IF h.isHistoricalDataLoading THEN h
         ELSE fetchHistoricalData(h, activeSensorId, selectedSensor)
  ELSE IF ~Truthy(activeSensorId)
    THEN [h EXCEPT !.influxHistoricalData = << >>]
  ELSE h

\* Lines 276-282: the fetch-on-change effect body.
FetchOnChangeEffect(h, activeSensorId, selectedSensor) ==
  IF Truthy(activeSensorId) /\ Truthy(selectedSensor)
    THEN fetchHistoricalData(h, activeSensorId, selectedSensor)
  ELSE IF ~Truthy(activeSensorId)
    THEN [h EXCEPT !.influxHistoricalData = << >>]
  ELSE h

\* ------------------------------------------------------ auto-refresh timer
NoTimer == 0

\* setInterval: the smallest handle that no armed timer uses and that is not
\* the handle returned last (the runtime never repeats a handle at once).
NewHandle(armed, last) ==
  LET free == {i \in 1..(Cardinality(armed) + 2) :
                 i # last /\ \A x \in armed : x.id # i}
  IN  CHOOSE i \in free : \A j \in free : i <= j

\* ClearAutoUpdate without the clearInterval call: the armed timer survives.
ClearAutoUpdate_NoClear(t) == t

\* Lines 286-289 and 296-299: clearInterval on the handle the ref holds.
ClearAutoUpdate(t) ==
  IF t.autoUpdateIntervalRef # NoTimer
    THEN [t EXCEPT !.timers = {x \in @ : x.id # t.autoUpdateIntervalRef},
                   !.autoUpdateIntervalRef = NoTimer]
    ELSE t

\* ShouldSchedule without the autoUpdateHistoricalData test.
ShouldSchedule_IgnoresToggle(autoUpdate, activeSensorId, selectedSensor) ==
  Truthy(activeSensorId) /\ Truthy(selectedSensor)

\* Line 290.
ShouldSchedule(autoUpdate, activeSensorId, selectedSensor) ==
  autoUpdate /\ Truthy(activeSensorId) /\ Truthy(selectedSensor)

\* Lines 285-294: the auto-update effect body.
AutoUpdateEffect(t, autoUpdate, activeSensorId, selectedSensor) ==
  LET cleared == ClearAutoUpdate(t)
  IN  IF ShouldSchedule(autoUpdate, activeSensorId, selectedSensor)
        THEN LET id == NewHandle(cleared.timers, cleared.lastHandle)
             IN  [timers |-> cleared.timers \cup
                    {[id |-> id, sensorMeasurementId |-> activeSensorId,
                      sensorType |-> selectedSensor]},
                  autoUpdateIntervalRef |-> id,
                  lastHandle |-> id]
        ELSE cleared

\* ------------------------------------------------------------------ state
VARIABLES
  mounted,                    \* the App component is mounted
  client,                     \* the mqtt client: ended, reconnecting, and
                              \* subscribing (patterns of the subscribe calls
                              \* whose callback is outstanding)
  connectionStatus,
  error,
  liveData,                   \* << >> is null
  handled,                    \* the last call of the 'message' handler
  relIntervals,               \* armed relative-time intervals (captured timestamp)
  activeSensorIdForChart,
  selectedSensorForChart,
  autoUpdateHistoricalData,
  autoUpdateIntervalRef,
  timers,                     \* armed auto-refresh intervals of the runtime
  lastHandle,                 \* the handle setInterval returned last
  influxHistoricalData,
  isHistoricalDataLoading,
  historicalDataError,
  pending,                    \* bag of historical requests not yet settled
  lastIssued,                 \* the request most recently sent
  lateEvent,                  \* the last event the ended client delivered
  csvCall,                    \* a call of parseInfluxCSV: its input, and returned
  points,                     \* what the call of parseInfluxCSV returned
  timeCall,                   \* a call of formatRelativeTime: its input, and returned
  relativeText                \* what the call of formatRelativeTime returned

connVars == << client, connectionStatus, error >>
liveVars == << liveData, relIntervals >>
selVars == << activeSensorIdForChart, selectedSensorForChart, autoUpdateHistoricalData >>
timerVars == << autoUpdateIntervalRef, timers, lastHandle >>
helperVars == << csvCall, points, timeCall, relativeText >>
histVars ==
  << influxHistoricalData, isHistoricalDataLoading, historicalDataError,
     pending, lastIssued >>
appVars ==
  << mounted, connVars, liveVars, handled, selVars, timerVars, histVars,
     lateEvent >>
vars ==
  << mounted, connVars, liveVars, handled, selVars, timerVars, histVars,
     lateEvent, helperVars >>

Hist ==
  [influxHistoricalData |-> influxHistoricalData,
   isHistoricalDataLoading |-> isHistoricalDataLoading,
   historicalDataError |-> historicalDataError,
   pending |-> pending, lastIssued |-> lastIssued]

SetHist(h) ==
  /\ influxHistoricalData' = h.influxHistoricalData
  /\ isHistoricalDataLoading' = h.isHistoricalDataLoading
  /\ historicalDataError' = h.historicalDataError
  /\ pending' = h.pending
  /\ lastIssued' = h.lastIssued

Timer ==
  [timers |-> timers, autoUpdateIntervalRef |-> autoUpdateIntervalRef,
   lastHandle |-> lastHandle]

SetTimer(t) ==
  /\ timers' = t.timers
  /\ autoUpdateIntervalRef' = t.autoUpdateIntervalRef
  /\ lastHandle' = t.lastHandle

NoMessage == [topic |-> << >>, payload |-> Malformed]

NoEvent == "none"

\* setState of an unmounted component.
SetState_AfterUnmount(current, next) == next

\* Lines 115-117: the setters returned by useState.  React drops an update
\* addressed to a component that has unmounted.
SetState(current, next) == IF mounted THEN next ELSE current

\* Lines 146-201: the handlers stay registered on the client after line 203
\* has ended it; lateEvent records a call made by the ended client.
Delivered(event) == lateEvent' = IF client.ended THEN event ELSE lateEvent

\* The state once the component has mounted and its effects have run once.
InitApp ==
  /\ mounted = TRUE
  /\ client = [ended |-> FALSE, reconnecting |-> FALSE, subscribing |-> {}]
  /\ connectionStatus = ConnectionStatus.CONNECTING
  /\ error = Null
  /\ liveData = << >>
  /\ handled = [message |-> NoMessage, outcome |-> "none",
                effectiveSensorId |-> Undefined]
  /\ relIntervals = {}
  /\ activeSensorIdForChart = Null
  /\ selectedSensorForChart = SensorType_STRESS
  /\ autoUpdateHistoricalData = TRUE
  /\ autoUpdateIntervalRef = NoTimer
  /\ timers = {}
  /\ lastHandle = NoTimer
  /\ influxHistoricalData = << >>
  /\ isHistoricalDataLoading = FALSE
  /\ historicalDataError = Null
  /\ pending = EmptyBag
  /\ lastIssued = NoRequest
  /\ lateEvent = NoEvent

\* No helper function is called on its own.
NoCsvCall ==
  [comments |-> 0, hasHeader |-> FALSE, header |-> << >>, rows |-> << >>,
   sensorType |-> Null, sensorMeasurementId |-> Null, returned |-> FALSE]

NoTimeCall == [now |-> 0, isoTimestamp |-> Null, offset |-> 0, returned |-> FALSE]

Init ==
  /\ InitApp
  /\ csvCall = NoCsvCall
  /\ points = << >>
  /\ timeCall = NoTimeCall
  /\ relativeText = Null

\* ---------------------------------------------------------------- effects
\* Lines 210-212: the active sensor follows the snapshot's sensor id.
ActiveSensorAfter(prevLiveData, nextLiveData, activeSensorId) ==
  LET id == Get(nextLiveData, "last_updated_sensor_id")
  IN  IF id # Get(prevLiveData, "last_updated_sensor_id") /\ Truthy(id)
        THEN id ELSE activeSensorId

\* Lines 215-227: the relative-time effect, run when the timestamp changed.
RelIntervalsAfter(prevLiveData, nextLiveData, armed) ==
  LET ts == Get(nextLiveData, "last_updated_timestamp")
  IN  IF ts = Get(prevLiveData, "last_updated_timestamp") THEN armed
      ELSE IF Truthy(ts) THEN {ts} ELSE {}

\* Commit whose fetch-on-change effect also depends on the auto-refresh flag.
Commit_FetchesOnToggle(nextLiveData, nextSelected, nextAuto) ==
  LET nextActive ==
        ActiveSensorAfter(liveData, nextLiveData, activeSensorIdForChart)
      pairChanged ==
        nextActive # activeSensorIdForChart \/ nextSelected # selectedSensorForChart
      h == IF pairChanged \/ nextAuto # autoUpdateHistoricalData
             THEN FetchOnChangeEffect(Hist, nextActive, nextSelected) ELSE Hist
      t == IF pairChanged \/ nextAuto # autoUpdateHistoricalData
             THEN AutoUpdateEffect(ClearAutoUpdate(Timer), nextAuto,
                                   nextActive, nextSelected)
             ELSE Timer
  IN  /\ BagCardinality(h.pending) <= MaxInFlight
      /\ liveData' = nextLiveData
      /\ relIntervals' = RelIntervalsAfter(liveData, nextLiveData, relIntervals)
      /\ activeSensorIdForChart' = nextActive
      /\ selectedSensorForChart' = nextSelected
      /\ autoUpdateHistoricalData' = nextAuto
      /\ SetHist(h)
      /\ SetTimer(t)

\* Commit whose auto-update effect depends on the auto-refresh flag alone.
Commit_RearmsOnToggleOnly(nextLiveData, nextSelected, nextAuto) ==
  LET nextActive ==
        ActiveSensorAfter(liveData, nextLiveData, activeSensorIdForChart)
      pairChanged ==
        nextActive # activeSensorIdForChart \/ nextSelected # selectedSensorForChart
      h == IF pairChanged
             THEN FetchOnChangeEffect(Hist, nextActive, nextSelected) ELSE Hist
      t == IF nextAuto # autoUpdateHistoricalData
             THEN AutoUpdateEffect(ClearAutoUpdate(Timer), nextAuto,
                                   nextActive, nextSelected)
             ELSE Timer
  IN  /\ BagCardinality(h.pending) <= MaxInFlight
      /\ liveData' = nextLiveData
      /\ relIntervals' = RelIntervalsAfter(liveData, nextLiveData, relIntervals)
      /\ activeSensorIdForChart' = nextActive
      /\ selectedSensorForChart' = nextSelected
      /\ autoUpdateHistoricalData' = nextAuto
      /\ SetHist(h)
      /\ SetTimer(t)

\* A render that commits the given snapshot, selection and auto-refresh flag,
\* followed by every effect whose dependencies changed.
Commit(nextLiveData, nextSelected, nextAuto) ==
  LET nextActive ==
        ActiveSensorAfter(liveData, nextLiveData, activeSensorIdForChart)
      pairChanged ==
        nextActive # activeSensorIdForChart \/ nextSelected # selectedSensorForChart
      h == IF pairChanged
             THEN FetchOnChangeEffect(Hist, nextActive, nextSelected) ELSE Hist
      t == IF pairChanged \/ nextAuto # autoUpdateHistoricalData
             THEN AutoUpdateEffect(ClearAutoUpdate(Timer), nextAuto,
                                   nextActive, nextSelected)
             ELSE Timer
  IN  /\ BagCardinality(h.pending) <= MaxInFlight
      /\ liveData' = nextLiveData
      /\ relIntervals' = RelIntervalsAfter(liveData, nextLiveData, relIntervals)
      /\ activeSensorIdForChart' = nextActive
      /\ selectedSensorForChart' = nextSelected
      /\ autoUpdateHistoricalData' = nextAuto
      /\ SetHist(h)
      /\ SetTimer(t)

\* Teardown without the cleanup of the relative-time effect.
Teardown_KeepsRelativeTimeInterval ==
  /\ mounted' = FALSE
  /\ client' = [client EXCEPT !.ended = TRUE]
  /\ connectionStatus' = ConnectionStatus.DISCONNECTED
  /\ relIntervals' = relIntervals
  /\ SetTimer(ClearAutoUpdate(Timer))
  /\ UNCHANGED << error, liveData, selVars, histVars >>

\* Lines 202-206, 224-226, 295-300: the cleanups run when the component
\* unmounts.
Teardown ==
  /\ mounted' = FALSE
  /\ client' = [client EXCEPT !.ended = TRUE]
  /\ connectionStatus' = ConnectionStatus.DISCONNECTED
  /\ relIntervals' = {}
  /\ SetTimer(ClearAutoUpdate(Timer))
  /\ UNCHANGED << error, liveData, selVars, histVars >>

\* --------------------------------------------------------------- handlers
\* HandlerOutcome without the try/catch: a parse error leaves the handler.
HandlerOutcome_NoCatch(message) ==
  IF ~message.payload.parses THEN "threw"
  ELSE IF ~PassesValidation(message.topic, message.payload) THEN "rejected"
  ELSE IF message.payload.timestamp.t = "hugeNumber" THEN "threw"
  ELSE "accepted"

\* Lines 158-184: how a call of the handler ends.
HandlerOutcome(message) ==
  IF ~message.payload.parses THEN "dropped"
  ELSE IF ~PassesValidation(message.topic, message.payload) THEN "rejected"
  ELSE IF message.payload.timestamp.t = "hugeNumber" THEN "threw"
  ELSE "accepted"

\* Lines 158-184.  A payload that does not parse throws into the catch; a
\* timestamp outside the Date range makes the updater throw in the render,
\* which unmounts the component tree.  The update of an unmounted component
\* is dropped before its updater runs.
OnMessage(message) ==
  LET called == HandlerOutcome(message)
      outcome == IF mounted \/ called \in {"dropped", "rejected"}
                   THEN called ELSE "ignored"
  IN  /\ Delivered("message")
      /\ handled' =
           [message |-> message, outcome |-> outcome,
            effectiveSensorId |->
              IF outcome \in {"accepted", "threw", "ignored"}
                THEN EffectiveSensorId(message.topic, message.payload)
                ELSE Undefined]
      /\ IF outcome = "accepted"
           THEN /\ Commit(UpdatedLiveData(liveData, message.topic, message.payload),
                          selectedSensorForChart, autoUpdateHistoricalData)
                /\ UNCHANGED << mounted, connVars >>
         ELSE IF outcome = "threw"
           THEN Teardown
         ELSE UNCHANGED << mounted, connVars, liveVars, selVars, timerVars, histVars >>
      /\ UNCHANGED helperVars

\* Line 399: the measurement select.
SelectSensor(sensorType) ==
  /\ mounted
  /\ sensorType # selectedSensorForChart
  /\ Commit(liveData, sensorType, autoUpdateHistoricalData)
  /\ UNCHANGED << mounted, connVars, handled, lateEvent, helperVars >>

\* Line 414: the auto-refresh checkbox.
ToggleAutoUpdate ==
  /\ mounted
  /\ Commit(liveData, selectedSensorForChart, ~autoUpdateHistoricalData)
  /\ UNCHANGED << mounted, connVars, handled, lateEvent, helperVars >>

\* Lines 291-293: a tick of an armed auto-refresh interval.
TimerTick ==
  \E x \in timers :
    LET h == fetchHistoricalData(Hist, x.sensorMeasurementId, x.sensorType)
    IN  /\ BagCardinality(h.pending) <= MaxInFlight
        /\ SetHist(h)
        /\ UNCHANGED << mounted, connVars, liveVars, handled, selVars, timerVars,
                        lateEvent, helperVars >>

\* Lines 252-272: a pending request settles.  The setters of an unmounted
\* component change nothing.
Settles(request, outcome) ==
  LET h == IF mounted THEN SettledState(Hist, request, outcome) ELSE Hist
  IN  /\ BagIn(request, pending)
      /\ SetHist([h EXCEPT !.pending = @ (-) SetToBag({request})])
      /\ UNCHANGED << mounted, connVars, liveVars, handled, selVars, timerVars,
                      lateEvent, helperVars >>

FetchSettles ==
  \E request \in BagToSet(pending), outcome \in FetchOutcomes :
    Settles(request, outcome)

\* Unmounting the component.
Unmount ==
  /\ mounted
  /\ Teardown
  /\ UNCHANGED << handled, lateEvent, helperVars >>

\* ------------------------------------------------------- transport events
\* Line 149: subscribe is called without options, which asks for quality of
\* service 0.
RequestedQoS == 0

\* What the subscribe callback of line 149 receives: an error, or the
\* granted quality of service (128 is the broker's failure code).
SubscribeResults ==
  [err : BOOLEAN, qos : {0}] \cup [err : {FALSE}, qos : {1, 2, 128}]

\* The handlers are created in the first render and keep reading the
\* connectionStatus of that render (line 116; the effect has no dependencies).
CapturedConnectionStatus == ConnectionStatus.DISCONNECTED

\* Lines 146-149: the 'connect' handler up to the subscribe call.  The
\* client calls back the subscribes of a connection when that connection
\* closes, so none is outstanding when the next connection is made.
OnConnect ==
  /\ Delivered("connect")
  /\ client.subscribing = {}
  /\ client' = [client EXCEPT
                  !.reconnecting = IF client.ended THEN @ ELSE FALSE,
                  !.subscribing = {MQTT_BASE_TOPIC}]
  /\ connectionStatus' = SetState(connectionStatus, ConnectionStatus.CONNECTED)
  /\ error' = SetState(error, Null)
  /\ UNCHANGED << mounted, liveVars, handled, selVars, timerVars, histVars,
                  helperVars >>

\* SubscribeError that overlooks the failure code of the broker.
SubscribeError_IgnoresReturnCode(result) ==
  IF result.err THEN "Failed to subscribe" ELSE Null

\* Lines 150-154: the text the subscribe callback sets, Null when it sets
\* none.
SubscribeError(result) ==
  IF result.err THEN "Failed to subscribe"
  ELSE IF result.qos > 2 THEN "Broker rejected subscription"
  ELSE Null

\* Lines 149-155: the callback of a subscribe call.
OnSubscribed(result) ==
  /\ client.subscribing # {}
  /\ Delivered("subscribed")
  /\ client' = [client EXCEPT !.subscribing = {}]
  /\ error' = IF SubscribeError(result) # Null
                THEN SetState(error, SubscribeError(result)) ELSE error
  /\ UNCHANGED << mounted, connectionStatus, liveVars, handled, selVars,
                  timerVars, histVars,
                  helperVars >>

\* Lines 186-189.
OnError ==
  /\ Delivered("error")
  /\ error' = SetState(error, "MQTT Error")
  /\ connectionStatus' = SetState(connectionStatus, ConnectionStatus.ERROR)
  /\ UNCHANGED << mounted, client, liveVars, handled, selVars, timerVars, histVars,
                  helperVars >>

\* OnReconnect that leaves the Error state and its text in place.
OnReconnect_StaysInError ==
  /\ Delivered("reconnect")
  /\ client' = IF client.ended THEN client
               ELSE [client EXCEPT !.reconnecting = TRUE]
  /\ connectionStatus' =
       IF connectionStatus = ConnectionStatus.ERROR THEN connectionStatus
       ELSE SetState(connectionStatus, ConnectionStatus.RECONNECTING)
  /\ error' = IF connectionStatus = ConnectionStatus.ERROR THEN error
              ELSE SetState(error, Null)
  /\ UNCHANGED << mounted, liveVars, handled, selVars, timerVars, histVars,
                  helperVars >>

\* Lines 190-193.
OnReconnect ==
  /\ Delivered("reconnect")
  /\ client' = IF client.ended THEN client
               ELSE [client EXCEPT !.reconnecting = TRUE]
  /\ connectionStatus' = SetState(connectionStatus, ConnectionStatus.RECONNECTING)
  /\ error' = SetState(error, Null)
  /\ UNCHANGED << mounted, liveVars, handled, selVars, timerVars, histVars,
                  helperVars >>

\* Lines 194-196.
OnOffline ==
  /\ Delivered("offline")
  /\ client' = IF client.ended THEN client
               ELSE [client EXCEPT !.reconnecting = TRUE]
  /\ connectionStatus' =
       IF CapturedConnectionStatus # ConnectionStatus.ERROR
         THEN SetState(connectionStatus, ConnectionStatus.RECONNECTING)
         ELSE connectionStatus
  /\ UNCHANGED << mounted, error, liveVars, handled, selVars, timerVars, histVars,
                  helperVars >>

\* Lines 197-201.
OnClose ==
  /\ Delivered("close")
  /\ connectionStatus' =
       IF CapturedConnectionStatus # ConnectionStatus.ERROR /\ ~client.reconnecting
         THEN SetState(connectionStatus, ConnectionStatus.DISCONNECTED)
         ELSE connectionStatus
  /\ UNCHANGED << mounted, client, error, liveVars, handled, selVars, timerVars, histVars,
                  helperVars >>

\* ---------------------------------------------------------- specifications
\* Messages of the whole-application specification: a payload that does not
\* parse, a sensor named by the payload, and a sensor named by the topic.
AppFields == [present |-> TRUE, entries |-> [k \in {"resistance"} |-> Val(1)]]

AppPayload(name) ==
  [parses |-> TRUE, fields |-> AppFields,
   timestamp |-> [t |-> "number", v |-> 1], name |-> name]

AppMessages ==
  { [topic |-> << "mapfeed", "/", "thws-trees", "/", "s2" >>, payload |-> Malformed],
    [topic |-> << "mapfeed", "/", "thws-trees" >>, payload |-> AppPayload("s1")],
    [topic |-> << "mapfeed", "/", "thws-trees", "/", "s2" >>,
     payload |-> AppPayload(Undefined)] }

SelectableSensors == {SensorType.RESISTANCE, SensorType.TEMP_WOOD}

\* The whole-application specification follows the client while it lives;
\* the events of an ended client are those of SpecConn below.
LiveClient == ~client.ended

MessageArrives == LiveClient /\ \E message \in AppMessages : OnMessage(message)
UserSelects == \E sensorType \in SelectableSensors : SelectSensor(sensorType)
BrokerAnswers == LiveClient /\ \E result \in SubscribeResults : OnSubscribed(result)

Next ==
  \/ MessageArrives
  \/ UserSelects
  \/ ToggleAutoUpdate
  \/ TimerTick
  \/ FetchSettles
  \/ LiveClient /\ OnConnect
  \/ BrokerAnswers
  \/ LiveClient /\ OnError
  \/ LiveClient /\ OnReconnect
  \/ LiveClient /\ OnOffline
  \/ LiveClient /\ OnClose
  \/ Unmount

Spec == Init /\ [][Next]_vars

\* The connection specification: every event the client can deliver to the
\* handlers of lines 146-201, before and after the cleanup has ended it.
ClientEmits ==
  \/ \E message \in AppMessages : OnMessage(message)
  \/ OnConnect
  \/ \E result \in SubscribeResults : OnSubscribed(result)
  \/ OnError
  \/ OnReconnect
  \/ OnOffline
  \/ OnClose

NextConn == ClientEmits \/ Unmount

SpecConn == Init /\ [][NextConn]_vars

\* Messages of the snapshot specification: every field map under one valid
\* envelope, and every envelope (timestamp, name, topic) around no field
\* map and around a one-field map.
LiveEnvelope(m) ==
  /\ m.payload.timestamp = [t |-> "number", v |-> 1]
  /\ m.payload.name = "s1"
  /\ m.topic = << "mapfeed", "/", "thws-trees", "/", "s2" >>

LiveMessages ==
  {m \in Messages :
     \/ m.payload = Malformed
     \/ m.payload.parses /\ LiveEnvelope(m)
     \/ m.payload.parses /\ m.payload.fields \in {NoFields, AppFields}}

AnyMessageArrives == LiveClient /\ \E message \in LiveMessages : OnMessage(message)

NextLive == AnyMessageArrives

SpecLive == Init /\ [][NextLive]_vars

\* The historical-query specification: fetchHistoricalData called with any
\* sensor id and any kind a caller can hold, and the requests settling.
FetchSensorIds == {"", "s1", "s2"}
FetchSensorTypes == {SensorType.RESISTANCE, SensorType.TEMP_WOOD, SensorType_STRESS}

\* Lines 230-250: a call of fetchHistoricalData.
CallFetchHistoricalData(sensorMeasurementId, sensorType) ==
  LET h == fetchHistoricalData(Hist, sensorMeasurementId, sensorType)
  IN  /\ mounted
      /\ BagCardinality(h.pending) <= MaxInFlight
      /\ SetHist(h)
      /\ UNCHANGED << mounted, connVars, liveVars, handled, selVars, timerVars,
                      lateEvent, helperVars >>

AnyFetchCall ==
  \E sensorMeasurementId \in FetchSensorIds, sensorType \in FetchSensorTypes :
    CallFetchHistoricalData(sensorMeasurementId, sensorType)

NextFetch == AnyFetchCall \/ FetchSettles

SpecFetch == Init /\ [][NextFetch]_vars

\* The parser specification: parseInfluxCSV called once on a CSV text made
\* of comment lines, a header line and data rows.
CommentLine == << "#", "datatype" >>

CsvHeaders ==
  { << "_time", "_value" >>, << "_value", "_time" >>,
    << "", "_time", "_value" >>, << "_time", "x" >>, << "x", "_value" >> }

\* A data row: its time cell, its value cell, and whether the line stops
\* after its first cell.
CsvRows ==
  { [time |-> "2024-01-01T00:00:00Z", value |-> "12.5", short |-> FALSE],
    [time |-> "2024-01-02T00:00:00Z", value |-> "7", short |-> FALSE],
    [time |-> "2024-01-01T00:00:00Z", value |-> "abc", short |-> FALSE],
    [time |-> "bad", value |-> "12.5", short |-> FALSE],
    [time |-> "2024-01-01T00:00:00Z", value |-> "", short |-> TRUE] }

SeqsUpTo(S, n) == UNION {[1..k -> S] : k \in 0..n}

CsvCalls ==
  {call \in
     [comments : 0..MaxComments, hasHeader : BOOLEAN, header : CsvHeaders,
      rows : SeqsUpTo(CsvRows, MaxRows),
      sensorType : {SensorType.RESISTANCE, SensorType.TEMP_WOOD},
      sensorMeasurementId : {"s1", "s2"}, returned : {FALSE}] :
     call.hasHeader \/ call.header = << "_time", "_value" >>}

\* The cells of a row, in the column order of the header.
RowCells(header, row) ==
  IF row.short THEN << row.time >>
  ELSE [i \in 1..Len(header) |->
          IF header[i] = "_time" THEN row.time
          ELSE IF header[i] = "_value" THEN row.value
          ELSE ""]

\* A line of cells as text: the cells with a "," token between them.
RECURSIVE LineOf(_)
LineOf(cells) ==
  LET first == IF Head(cells) = "" THEN << >> ELSE << Head(cells) >>
  IN  IF Len(cells) = 1 THEN first
      ELSE first \o << "," >> \o LineOf(Tail(cells))

RECURSIVE LinesToText(_)
LinesToText(lines) ==
  IF lines = << >> THEN << >>
  ELSE Head(lines) \o << "\n" >> \o LinesToText(Tail(lines))

\* The response body of line 264 for a call: every line ends with "\n".
CsvTextOf(call) ==
  LinesToText(
    [i \in 1..call.comments |-> CommentLine]
    \o (IF call.hasHeader THEN << LineOf(call.header) >> ELSE << >>)
    \o [i \in 1..Len(call.rows) |-> LineOf(RowCells(call.header, call.rows[i]))])

\* Lines 28-73: a call of parseInfluxCSV.
CallParseInfluxCSV ==
  /\ csvCall # NoCsvCall
  /\ ~csvCall.returned
  /\ points' = parseInfluxCSV(CsvTextOf(csvCall), csvCall.sensorType,
                              csvCall.sensorMeasurementId)
  /\ csvCall' = [csvCall EXCEPT !.returned = TRUE]
  /\ UNCHANGED << appVars, timeCall, relativeText >>

InitParse ==
  /\ InitApp
  /\ csvCall \in CsvCalls
  /\ points = << >>
  /\ timeCall = NoTimeCall
  /\ relativeText = Null

NextParse == CallParseInfluxCSV

SpecParse == InitParse /\ [][NextParse]_vars

\* The relative-time specification: formatRelativeTime called once on a
\* timestamp of the snapshot, at a clock reading some age later.
AgeSeconds ==
  {-30, 0, 45, 60, 90, 119, 120, 3599, 3600, 3700, 7199, 7200, 86399, 86400,
   172800, 604799, 604800, 691200}

AgeFractions == {-501, -500, 0, 499, 500}

TimezoneOffsets == {-60, 0}

TimeCalls ==
  {[now |-> past + age * 1000 + fraction, isoTimestamp |-> ToISOString(past),
    offset |-> timezoneOffset, returned |-> FALSE] :
     past \in PastInstants, age \in AgeSeconds, fraction \in AgeFractions,
     timezoneOffset \in TimezoneOffsets}

\* Lines 89-110: a call of formatRelativeTime.
CallFormatRelativeTime ==
  /\ timeCall # NoTimeCall
  /\ ~timeCall.returned
  /\ relativeText' =
       formatRelativeTime(timeCall.isoTimestamp, timeCall.now, timeCall.offset)
  /\ timeCall' = [timeCall EXCEPT !.returned = TRUE]
  /\ UNCHANGED << appVars, csvCall, points >>

InitTime ==
  /\ InitApp
  /\ csvCall = NoCsvCall
  /\ points = << >>
  /\ timeCall \in TimeCalls
  /\ relativeText = Null

NextTime == CallFormatRelativeTime

SpecTime == InitTime /\ [][NextTime]_vars

\* ------------------------------------------------------------ rendering
\* Lines 421-425: the points the chart shows; nothing while a request is
\* loading or an error is set.
VisibleHistorical ==
  IF ~isHistoricalDataLoading /\ historicalDataError = Null
    THEN influxHistoricalData ELSE << >>

\* ------------------------------------------------------------------ claims
NonEmpty(v) == v \notin {Null, Undefined, ""}

\* C1: a historical response that arrives after a newer request for another
\* (sensorId, kind) pair was issued is discarded, so in every reachable state
\* the visible historical result was produced by the most recently issued
\* request: each visible point carries that request's sensor id and kind.
C1_LatestRequestShown ==
  \A i \in 1..Len(VisibleHistorical) :
    /\ VisibleHistorical[i]["sensor_id"] = lastIssued.sensorMeasurementId
    /\ lastIssued.sensorType \in DOMAIN VisibleHistorical[i]

\* C2: in every reachable state at most one auto-refresh interval is armed,
\* and an armed interval is the one autoUpdateIntervalRef holds.
C2_AtMostOneTimer ==
  /\ Cardinality(timers) <= 1
  /\ \A x \in timers : x.id = autoUpdateIntervalRef

\* C2 witness: one interval is armed and it is not the first one the
\* component armed (the earlier one was cleared before this one was set).
C2_Rearmed ==
  /\ mounted
  /\ autoUpdateHistoricalData
  /\ Cardinality(timers) = 1
  /\ autoUpdateIntervalRef = 2

\* C3: while the component is mounted (the auto-update effect has run for
\* the current inputs) an interval is armed if and only if auto-refresh is
\* enabled and both the active sensor id and the selected kind are non-empty.
C3_ScheduledIff ==
  mounted =>
    ((timers # {}) <=>
       (/\ autoUpdateHistoricalData
        /\ NonEmpty(activeSensorIdForChart)
        /\ NonEmpty(selectedSensorForChart)))

\* C3 witness: an interval was armed, auto-refresh was then switched off with
\* the sensor and the kind still set, and no interval is armed.
C3_IdleAfterScheduled ==
  /\ mounted
  /\ ~autoUpdateHistoricalData
  /\ NonEmpty(activeSensorIdForChart) /\ NonEmpty(selectedSensorForChart)
  /\ lastHandle # NoTimer
  /\ timers = {}

\* The third '/'-separated segment of a topic, Undefined when there is none.
ThirdSegment(topic) == At(Split(topic, "/"), 2)

\* The message of a handler call, taken apart.
FieldsOf(call) == call.message.payload.fields.entries
NameOf(call) == call.message.payload.name
TimestampOf(call) == call.message.payload.timestamp

\* The step is a call of the 'message' handler (handled' records its message).
MessageHandled == OnMessage(handled'.message)

\* C4: a message that is missing `fields`, or whose `timestamp` is missing or
\* not a number, or that has neither a name nor a third topic segment, leaves
\* the live snapshot exactly as it was.
C4_Invalid(call) ==
  \/ ~call.message.payload.fields.present
  \/ TimestampOf(call).t \in {"undefined", "string"}
  \/ (~NonEmpty(NameOf(call)) /\ ~NonEmpty(ThirdSegment(call.message.topic)))

C4_InvalidLeavesSnapshot ==
  [][(MessageHandled /\ C4_Invalid(handled')) => liveData' = liveData]_vars

\* C4 witness: an invalid, parseable message was handled while a snapshot
\* existed.
C4_RejectedWithSnapshot ==
  /\ handled.message.payload.parses
  /\ C4_Invalid(handled)
  /\ handled.outcome = "rejected"
  /\ liveData # << >>

\* C5: across accepted messages every key a message carries holds that
\* message's value, no key of the snapshot is ever removed, and a key carried
\* by the previous accepted message but not by this one keeps the value the
\* previous message gave it.
C5_FieldsAccumulate ==
  [][(MessageHandled /\ handled'.outcome = "accepted") =>
       /\ \A k \in DOMAIN FieldsOf(handled') :
            k \in DOMAIN liveData' /\ liveData'[k] = FieldsOf(handled')[k]
       /\ DOMAIN liveData \subseteq DOMAIN liveData'
       /\ handled.outcome = "accepted" =>
            \A k \in DOMAIN FieldsOf(handled) \ DOMAIN FieldsOf(handled') :
              liveData'[k] = FieldsOf(handled)[k]]_vars

\* C6: after every accepted message the snapshot's last_updated_timestamp is
\* that message's timestamp and last_updated_sensor_id is the sensor id
\* resolved for that message, whatever field names the message carries.
C6_ProvenanceOfLastMessage ==
  handled.outcome = "accepted" =>
    /\ liveData["last_updated_timestamp"] = ToISOString(TimestampOf(handled).v * 1000)
    /\ liveData["last_updated_sensor_id"] =
         IF NonEmpty(NameOf(handled)) THEN NameOf(handled)
         ELSE ThirdSegment(handled.message.topic)

\* C7: a message whose `fields` map is present but empty causes no change of
\* the snapshot.
C7_EmptyFieldsRejected ==
  [][(/\ MessageHandled
      /\ handled'.message.payload.parses
      /\ handled'.message.payload.fields.present
      /\ FieldsOf(handled') = << >>) => liveData' = liveData]_vars

\* C8 as stated: a message with fields and a numeric timestamp is accepted
\* and resolves to its name if non-empty, otherwise to the third topic
\* segment if there is one, otherwise to the unknown-sensor sentinel.
C8_ThreeOutcomes ==
  (/\ handled.message.payload.parses
   /\ handled.message.payload.fields.present
   /\ TimestampOf(handled).t = "number") =>
    /\ handled.outcome = "accepted"
    /\ handled.effectiveSensorId =
         IF NonEmpty(NameOf(handled)) THEN NameOf(handled)
         ELSE IF NonEmpty(ThirdSegment(handled.message.topic))
           THEN ThirdSegment(handled.message.topic)
         ELSE UNKNOWN_SENSOR

\* C8 amended: every message that passes validation resolves to its name if
\* non-empty and otherwise to the non-empty third topic segment; a message
\* with neither is rejected, so the sentinel is never the resolved id.
C8_NameElseThirdSegment ==
  /\ handled.outcome \in {"accepted", "threw"} =>
       /\ handled.effectiveSensorId =
            IF NonEmpty(NameOf(handled)) THEN NameOf(handled)
            ELSE ThirdSegment(handled.message.topic)
       /\ NonEmpty(handled.effectiveSensorId)
       /\ handled.effectiveSensorId # UNKNOWN_SENSOR
  /\ (/\ handled.message.payload.parses
      /\ ~NonEmpty(NameOf(handled))
      /\ ~NonEmpty(ThirdSegment(handled.message.topic))) =>
       handled.outcome = "rejected"
  /\ (handled.outcome = "accepted"
        /\ "last_updated_sensor_id" \notin DOMAIN FieldsOf(handled)) =>
       liveData["last_updated_sensor_id"] = handled.effectiveSensorId

\* C8 witness: an accepted message without a name resolved to the third
\* segment of its topic.
C8_ResolvedFromTopic ==
  /\ handled.outcome = "accepted"
  /\ ~NonEmpty(NameOf(handled))
  /\ handled.effectiveSensorId = "s2"
  /\ liveData["last_updated_sensor_id"] = "s2"

\* C9: a message whose payload does not parse is dropped: the snapshot, the
\* connectivity state, the error text, the active sensor id and the refresh
\* timer stay as they are and the component stays mounted.
C9_MalformedDropped ==
  [][(MessageHandled /\ ~handled'.message.payload.parses) =>
       /\ handled'.outcome = "dropped"
       /\ UNCHANGED << mounted, liveData, connectionStatus, error,
                       activeSensorIdForChart, autoUpdateIntervalRef, timers >>]_vars

\* C9 witness: a malformed message was dropped while a snapshot existed, a
\* refresh timer was armed and an error text was shown.
C9_DroppedInBusyState ==
  /\ handled.outcome = "dropped"
  /\ mounted
  /\ liveData # << >>
  /\ timers # {}
  /\ error # Null
  /\ connectionStatus = ConnectionStatus.ERROR

\* C10: a step that changes the active sensor id or the selected kind, after
\* which both are non-empty, sends exactly one request, for the new pair,
\* whatever requests are still pending.
C10_ChangeFetchesOnce ==
  [][((activeSensorIdForChart' # activeSensorIdForChart
         \/ selectedSensorForChart' # selectedSensorForChart)
      /\ NonEmpty(activeSensorIdForChart')
      /\ NonEmpty(selectedSensorForChart')) =>
       LET request == [sensorMeasurementId |-> activeSensorIdForChart',
                       sensorType |-> selectedSensorForChart']
       IN  /\ pending' = pending (+) SetToBag({request})
           /\ lastIssued' = request
           /\ isHistoricalDataLoading']_vars

\* C10 witness: the request for the current pair is pending together with an
\* older request for another pair.
C10_FetchedWhileInFlight ==
  /\ mounted
  /\ lastIssued = [sensorMeasurementId |-> activeSensorIdForChart,
                   sensorType |-> selectedSensorForChart]
  /\ BagIn(lastIssued, pending)
  /\ \E request \in BagToSet(pending) : request # lastIssued

\* C11: once the cleanup has ended the client the connectivity state is
\* Disconnected, and no event the ended client delivers afterwards (close,
\* offline, error, reconnect, connect, message) changes the connectivity
\* state, the error text or the live snapshot.
C11_EndedClientChangesNothing ==
  [][/\ client.ended' => connectionStatus' = ConnectionStatus.DISCONNECTED
     /\ client.ended => UNCHANGED << connectionStatus, error, liveData >>]_vars

\* C11 witness: the ended client delivered an `error` event after a snapshot
\* had been stored, and the state is Disconnected.
C11_ErrorAfterEnd ==
  /\ client.ended
  /\ lateEvent = "error"
  /\ liveData # << >>
  /\ connectionStatus = ConnectionStatus.DISCONNECTED

\* C12: once the component has unmounted, the client has been ended, no
\* auto-refresh interval is armed and no relative-time interval is armed.
C12_UnmountReleasesAll ==
  ~mounted =>
    /\ client.ended
    /\ timers = {}
    /\ autoUpdateIntervalRef = NoTimer
    /\ relIntervals = {}

\* C12 witness: the component has unmounted after an auto-refresh interval
\* had been armed and a snapshot with a timestamp (which arms the
\* relative-time interval) had been stored, with a request still pending.
C12_UnmountedWhileBusy ==
  /\ ~mounted
  /\ lastHandle # NoTimer
  /\ Truthy(Get(liveData, "last_updated_timestamp"))
  /\ pending # EmptyBag

\* C13: a call of fetchHistoricalData with an empty sensor id, or with a
\* kind that has no field mapping, sets a non-empty error string and an
\* empty historical result, sends no request and leaves the loading flag as
\* it was.
C13_FailsFastWithoutRequest ==
  [][\A sensorMeasurementId \in FetchSensorIds, sensorType \in FetchSensorTypes :
       (/\ CallFetchHistoricalData(sensorMeasurementId, sensorType)
        /\ (sensorMeasurementId = "" \/ sensorType \notin DOMAIN SENSOR_TYPE_TO_INFLUX_FIELD))
       => /\ NonEmpty(historicalDataError')
          /\ influxHistoricalData' = << >>
          /\ pending' = pending
          /\ lastIssued' = lastIssued
          /\ isHistoricalDataLoading' = isHistoricalDataLoading]_vars

\* C13 witness: a call for an unmapped kind failed fast while an earlier
\* request was still loading.
C13_ConfigErrorWhileLoading ==
  /\ historicalDataError = "Configuration error: No InfluxDB field mapping"
  /\ influxHistoricalData = << >>
  /\ isHistoricalDataLoading
  /\ pending # EmptyBag

\* C14: when a request of the mounted component ends with a non-success
\* status or a transport failure, the error string is set, the historical
\* result is empty, the loading flag is false and the failure sends no
\* request (the failed request leaves the pending ones, none joins them and
\* no interval is armed or cleared); a timer tick sends exactly one request.
C14_FailureSetsErrorNoRetry ==
  [][/\ \A request \in BagToSet(pending), outcome \in FetchOutcomes :
          (mounted /\ outcome.type # "ok" /\ Settles(request, outcome)) =>
            /\ NonEmpty(historicalDataError')
            /\ influxHistoricalData' = << >>
            /\ ~isHistoricalDataLoading'
            /\ pending' = pending (-) SetToBag({request})
            /\ lastIssued' = lastIssued
            /\ timers' = timers
     /\ TimerTick => BagCardinality(pending') = BagCardinality(pending) + 1]_vars

\* C14 witness: a request failed at the transport while the component was
\* mounted with an armed auto-refresh interval and nothing else pending.
C14_FailedAndIdle ==
  /\ mounted
  /\ historicalDataError = "Failed to fetch"
  /\ influxHistoricalData = << >>
  /\ ~isHistoricalDataLoading
  /\ pending = EmptyBag
  /\ timers # {}

\* C15: every `connect` event issues a subscribe for the base topic
\* pattern; the callback of a subscribe that the broker denied (callback
\* error or failure return code 128) or granted below the requested quality
\* of service sets a subscription error text, and the callback of a
\* subscribe granted at the requested level leaves the error text alone.
C15_SubscribeOnConnect ==
  [][/\ (mounted /\ OnConnect) => client'.subscribing = {MQTT_BASE_TOPIC}
     /\ \A result \in SubscribeResults :
          (mounted /\ OnSubscribed(result)) =>
            /\ (result.err \/ result.qos = 128 \/ result.qos < RequestedQoS) =>
                 error' \in {"Failed to subscribe", "Broker rejected subscription"}
            /\ (~result.err /\ result.qos = RequestedQoS) => error' = error]_vars

\* C15 witness: the component is connected, the subscribe of the connection
\* has been answered with the failure return code and its text is shown.
C15_BrokerRejected ==
  /\ mounted
  /\ connectionStatus = ConnectionStatus.CONNECTED
  /\ client.subscribing = {}
  /\ error = "Broker rejected subscription"

\* C16: on a mounted component an `error` event gives the Error state and a
\* non-empty error text; from the Error state a `reconnect` event gives
\* Reconnecting and a `connect` event gives Connected, each with the error
\* text cleared.
C16_ErrorIsNotTerminal ==
  [][mounted =>
       /\ OnError =>
            /\ connectionStatus' = ConnectionStatus.ERROR
            /\ NonEmpty(error')
       /\ (connectionStatus = ConnectionStatus.ERROR /\ OnReconnect) =>
            /\ connectionStatus' = ConnectionStatus.RECONNECTING
            /\ error' = Null
       /\ (connectionStatus = ConnectionStatus.ERROR /\ OnConnect) =>
            /\ connectionStatus' = ConnectionStatus.CONNECTED
            /\ error' = Null]_vars

\* C16 witness: an `error` event arrived while the client was reconnecting
\* and the Error state is shown with its text.
C16_ErrorWhileReconnecting ==
  /\ mounted
  /\ client.reconnecting
  /\ connectionStatus = ConnectionStatus.ERROR
  /\ error = "MQTT Error"

\* The first line of a call's text that does not start with '#', as cells;
\* << >> when the text has no such line.
FirstPlainLine(call) ==
  IF call.hasHeader THEN call.header
  ELSE IF call.rows # << >> THEN RowCells(call.header, call.rows[1])
  ELSE << >>

HasColumn(cells, name) == \E i \in 1..Len(cells) : cells[i] = name

\* A row with enough columns, a parseable time and a parseable value.
ValidRow(row) ==
  ~row.short /\ DateOf(row.time) # NaN /\ ParseFloat(row.value) # NaN

\* C17: the header is the first line that does not start with '#': a text
\* without such a line, or whose first such line lacks `_time` or lacks
\* `_value`, gives the empty sequence; below a header with both columns
\* valid rows give one point each; and two comment lines, the header
\* `_time,_value` and the row `2024-01-01T00:00:00Z,12.5` give exactly one
\* point with that time and the value 12.5.
C17_HeaderIsFirstPlainLine ==
  csvCall.returned =>
    /\ FirstPlainLine(csvCall) = << >> => points = << >>
    /\ (~HasColumn(FirstPlainLine(csvCall), "_time")
          \/ ~HasColumn(FirstPlainLine(csvCall), "_value")) => points = << >>
    /\ (/\ csvCall.hasHeader
        /\ HasColumn(csvCall.header, "_time") /\ HasColumn(csvCall.header, "_value")
        /\ \A i \in 1..Len(csvCall.rows) : ValidRow(csvCall.rows[i]))
         => Len(points) = Len(csvCall.rows)
    /\ (/\ csvCall.comments = 2 /\ csvCall.hasHeader
        /\ csvCall.header = << "_time", "_value" >>
        /\ csvCall.rows =
             << [time |-> "2024-01-01T00:00:00Z", value |-> "12.5", short |-> FALSE] >>)
         => /\ Len(points) = 1
            /\ points[1]["original_timestamp"] = "2024-01-01T00:00:00.000Z"
            /\ points[1][csvCall.sensorType] = "12.5"

\* C17 witness: the text of two comment lines, the header `_time,_value` and
\* one valid row has been parsed into one point.
C17_ExampleParsed ==
  /\ csvCall.returned
  /\ csvCall.comments = 2 /\ csvCall.hasHeader
  /\ csvCall.header = << "_time", "_value" >>
  /\ Len(csvCall.rows) = 1
  /\ Len(points) = 1
  /\ points[1]["original_timestamp"] = "2024-01-01T00:00:00.000Z"

\* The time and value of every valid row, in the order of the rows.
RECURSIVE ValidRowsOf(_)
ValidRowsOf(rows) ==
  IF rows = << >> THEN << >>
  ELSE (IF ValidRow(Head(rows))
          THEN << << DateOf(Head(rows).time), ParseFloat(Head(rows).value) >> >>
          ELSE << >>) \o ValidRowsOf(Tail(rows))

\* C18: below a header with both columns the result holds exactly the rows
\* with enough columns, a parseable time and a parseable value, one point
\* per such row and in the order of the rows (no sorting, no deduplication,
\* a rejected row hides no later row).
C18_ValidRowsInOrder ==
  (/\ csvCall.returned /\ csvCall.hasHeader
   /\ HasColumn(csvCall.header, "_time") /\ HasColumn(csvCall.header, "_value"))
    => [i \in 1..Len(points) |->
          << points[i]["original_timestamp"], points[i][csvCall.sensorType] >>]
         = ValidRowsOf(csvCall.rows)

\* C18 witness: of three rows the later time came first, the second was
\* rejected for its value, and the two valid rows were returned in the
\* order of the text.
C18_SkippedMiddleRow ==
  /\ csvCall.returned /\ csvCall.hasHeader
  /\ Len(csvCall.rows) = 3
  /\ csvCall.rows[2].value = "abc"
  /\ Len(points) = 2
  /\ points[1]["original_timestamp"] = "2024-01-02T00:00:00.000Z"
  /\ points[2]["original_timestamp"] = "2024-01-01T00:00:00.000Z"

\* C19: every point a call returns has the sensor_id the call was given and
\* holds its value under the kind the call was given and under no other
\* kind.
C19_PointsCarryRequest ==
  csvCall.returned =>
    \A i \in 1..Len(points) :
      /\ points[i]["sensor_id"] = csvCall.sensorMeasurementId
      /\ DOMAIN points[i] \cap SensorTypes = {csvCall.sensorType}
      /\ points[i][csvCall.sensorType] # NaN

\* C19 witness: a call for sensor s2 and the wood temperature returned two
\* points.
C19_TwoPointsForS2 ==
  /\ csvCall.returned
  /\ csvCall.sensorMeasurementId = "s2"
  /\ csvCall.sensorType = SensorType.TEMP_WOOD
  /\ Len(points) = 2
  /\ points[2]["sensor_id"] = "s2"

\* The age of a call in whole seconds: the clock reading minus the instant
\* of the timestamp, rounded to the nearest second.
AgeOf(call) ==
  LET past == CHOOSE ms \in PastInstants : ToISOString(ms) = call.isoTimestamp
      ms == call.now - past
  IN  IF ms % 1000 >= 500 THEN ms \div 1000 + 1 ELSE ms \div 1000

CountOf(n, unit) == ToString(n) \o " " \o unit \o (IF n = 1 THEN "" ELSE "s") \o " ago"

\* C20: by the age in whole seconds the text is "just now" below 60 s, else
\* "N minute(s) ago" with N = floor(age / 60) below 60, else "N hour(s) ago"
\* with N = floor(minutes / 60) below 24, else "N day(s) ago" with
\* N = floor(hours / 24) below 7, else a calendar date; the unit is singular
\* exactly when N = 1; 45 s gives "just now", 90 s "1 minute ago", 3700 s
\* "1 hour ago" and 8 days a date.
C20_RelativeTimeThresholds ==
  timeCall.returned =>
    LET age == AgeOf(timeCall)
        minutes == age \div 60
        hours == minutes \div 60
        days == hours \div 24
        isDate == relativeText \in {"on 01.01.70", "on 31.12.69"}
    IN  /\ relativeText =
             IF age < 60 THEN "just now"
             ELSE IF minutes < 60 THEN CountOf(minutes, "minute")
             ELSE IF hours < 24 THEN CountOf(hours, "hour")
             ELSE IF days < 7 THEN CountOf(days, "day")
             ELSE relativeText
        /\ days >= 7 <=> isDate
        /\ age = 45 => relativeText = "just now"
        /\ age = 90 => relativeText = "1 minute ago"
        /\ age = 3700 => relativeText = "1 hour ago"
        /\ age = 691200 => isDate

\* C20 witness: a timestamp 3700 s old was formatted as "1 hour ago".
C20_OneHourAgo ==
  /\ timeCall.returned
  /\ timeCall.now - ParseISO(timeCall.isoTimestamp).time = 3700000
  /\ relativeText = "1 hour ago"

\* C21: a request of the mounted component that ends with a success status
\* and a body yielding no point leaves the historical result empty and the
\* error value null.
C21_EmptyResultIsNoError ==
  [][\A request \in BagToSet(pending), outcome \in FetchOutcomes :
       (/\ mounted
        /\ outcome.type = "ok"
        /\ parseInfluxCSV(outcome.body, request.sensorType,
                          request.sensorMeasurementId) = << >>
        /\ Settles(request, outcome)) =>
         /\ influxHistoricalData' = << >>
         /\ historicalDataError' = Null]_vars

\* C22: for every measurement kind, after an accepted message that carried
\* the kind's backing field (the field name historical queries use for it)
\* the snapshot holds that message's value under the kind's own key.
C22_FieldLandsInKindSlot ==
  handled.outcome = "accepted" =>
    \A kind \in SensorTypes :
      InfluxField(kind) \in DOMAIN FieldsOf(handled) =>
        /\ kind \in DOMAIN liveData
        /\ liveData[kind] = FieldsOf(handled)[InfluxField(kind)]

\* C23: while the connectivity state of the mounted component is Error, an
\* `offline` event and a `close` event leave it Error; only a `connect`
\* event, a `reconnect` event or the teardown leave the Error state.
C23_ErrorSurvivesOfflineAndClose ==
  [][(mounted /\ connectionStatus = ConnectionStatus.ERROR) =>
       /\ OnOffline => connectionStatus' = ConnectionStatus.ERROR
       /\ OnClose => connectionStatus' = ConnectionStatus.ERROR
       /\ connectionStatus' # ConnectionStatus.ERROR =>
            (OnConnect \/ OnReconnect \/ ~mounted')]_vars

\* C24: in every reachable state, overlapping requests included, a non-null
\* historical error comes with an empty historical result.
C24_ErrorImpliesEmptyResult ==
  historicalDataError # Null => influxHistoricalData = << >>

\* C25: while the component is mounted the loading flag is true exactly when
\* at least one historical request has been sent and has not yet settled.
C25_LoadingIffInFlight ==
  mounted => (isHistoricalDataLoading <=> pending # EmptyBag)

\* C26: while the component is mounted, every armed auto-refresh timer holds
\* the active sensor id and the selected kind, and a tick of the timer issues
\* one historical request for exactly that pair.
C26_TimerHoldsCurrentPair ==
  [][/\ mounted' =>
          \A x \in timers' :
            /\ x.sensorMeasurementId = activeSensorIdForChart'
            /\ x.sensorType = selectedSensorForChart'
     /\ TimerTick =>
          LET current == [sensorMeasurementId |-> activeSensorIdForChart,
                          sensorType |-> selectedSensorForChart]
          IN  /\ lastIssued' = current
              /\ pending' = pending (+) SetToBag({current})]_vars

\* A timer re-armed after a change of the pair has ticked: two requests for
\* the current pair are in flight.
C26_TickAfterRearm ==
  /\ mounted
  /\ autoUpdateHistoricalData
  /\ autoUpdateIntervalRef = 2
  /\ \E x \in timers : x.id = 2 /\ x.sensorType = selectedSensorForChart
  /\ CopiesIn([sensorMeasurementId |-> activeSensorIdForChart,
               sensorType |-> selectedSensorForChart], pending) = 2

\* C27: after an accepted message the active sensor id equals the sensor id
\* resolved for that message; an active sensor id that is set never becomes
\* empty again; an accepted message whose resolved sensor id is already the
\* active one changes neither the historical state nor the refresh timer.
C27_ActiveSensorFollowsMessage ==
  [][/\ Truthy(activeSensorIdForChart) => Truthy(activeSensorIdForChart')
     /\ (MessageHandled /\ handled'.outcome = "accepted") =>
          /\ activeSensorIdForChart' = handled'.effectiveSensorId
          /\ handled'.effectiveSensorId = activeSensorIdForChart =>
               UNCHANGED << histVars, timerVars >>]_vars

\* C28: a toggle of auto-refresh flips the flag and arms or disarms the
\* timer for the unchanged pair; it sends no request and leaves the
\* historical result, the error text, the loading flag, the snapshot and the
\* selection as they were.
C28_ToggleOnlyArmsOrDisarms ==
  [][ToggleAutoUpdate =>
       /\ autoUpdateHistoricalData' = ~autoUpdateHistoricalData
       /\ UNCHANGED << influxHistoricalData, historicalDataError,
                       isHistoricalDataLoading, pending, lastIssued >>
       /\ UNCHANGED << liveData, activeSensorIdForChart, selectedSensorForChart >>
       /\ \A x \in timers' :
            /\ autoUpdateHistoricalData'
            /\ x.sensorMeasurementId = activeSensorIdForChart
            /\ x.sensorType = selectedSensorForChart
       /\ ~autoUpdateHistoricalData' => timers' = {}]_vars

\* Auto-refresh was switched off while a request for the selected pair was
\* in flight: the loading flag is still raised and no timer is armed.
C28_ToggledOffWhileLoading ==
  /\ mounted
  /\ ~autoUpdateHistoricalData
  /\ timers = {}
  /\ isHistoricalDataLoading
  /\ historicalDataError = Null
  /\ BagIn([sensorMeasurementId |-> activeSensorIdForChart,
            sensorType |-> selectedSensorForChart], pending)

====
